---------------------------- MODULE Spec2Model ----------------------------
(***************************************************************************)
(* State-machine model of the music-cgt step sequencer (src/App.tsx, the   *)
(* second App component, lines 308-623, with the AudioEngine and the       *)
(* MidiService of src/unnamed/part_003).  The first App component of the   *)
(* file (lines 1-307) has the same scheduler; its togglePlay reads the     *)
(* isPlaying and selectedMidiOutputId of the render's state where the      *)
(* second reads stateRef.current, and both are the state as of the last    *)
(* render.                                                                 *)
(*                                                                         *)
(* Units.  The audio clock (AudioContext.currentTime, seconds in the code) *)
(* is counted in milliseconds; the wall clock (performance.now(),          *)
(* milliseconds in the code) is counted in tenths of a millisecond, so     *)
(* that the 90% / 110% note-off delays stay integral.  The code's          *)
(* seconds-to-milliseconds factor of 1000 is therefore SecToPerf below.     *)
(***************************************************************************)
EXTENDS Integers, Sequences, FiniteSets

(***************************************************************************)
(* Program constants                                                       *)
(***************************************************************************)
STEPS_PER_BAR == 16

\* 0.1 s, in audio-clock units (ms)
SCHEDULE_AHEAD_TIME == 100

\* 25 ms, the setTimeout period
LOOKAHEAD == 25

\* the literal 0.1 of togglePlay's start branch, in audio-clock units (ms)
LeadIn == 100

\* NOTES[i].midi
NoteMidi(i) == 48 + i

\* audio-clock units (ms) -> wall-clock units (0.1 ms): the code's "* 1000"
SecToPerf(x) == x * 10

\* wall-clock units in one millisecond
MsToPerf(x) == x * 10

\* (60.0 / bpm) / 4 in audio-clock units (ms); exact for the tempos of Tempos
SecondsPer16th(bpm) == 15000 \div bpm

(***************************************************************************)
(* Bounds of the model                                                     *)
(***************************************************************************)
\* timer periods of wall-clock time a behaviour of Spec covers
MaxClock == 4

\* how many timer periods late a timeout callback may be delivered in Spec
MaxLate == 0

\* how many timer periods late a timeout callback may be delivered in SpecTempo
TempoLate == 4

\* how many times Play/Stop is pressed in a behaviour of Spec
MaxToggles == 3

\* timer periods of wall-clock time a behaviour of SpecTempo covers
TempoClock == 12

\* how many times the tempo is changed in a behaviour of SpecTempo
MaxTempoChanges == 1

\* timer periods of wall-clock time a behaviour of SpecLoop covers
LoopClock == 82

\* how many timer periods late a timeout callback may be delivered in SpecLoop
LoopLate == 0

\* how many pattern edits are made in a behaviour of SpecLoop
MaxEdits == 1

\* timer periods that may pass before Play is pressed for the first time
MaxIdle == 0

\* timer periods ctx.resume() may take to resolve
MaxResume == 0

\* how many pattern operations are made in a behaviour of SpecEdit
MaxPatternOps == 3

\* how many handleStepChange calls are made in a behaviour of SpecSetStep
MaxSetSteps == 2

\* how many tempo updates are made in a behaviour of SpecBpm
MaxTempoOps == 3

\* values typed into the tempo input or asked of the tempo slider
TempoRequests == {0, 19, 150, 301}

\* timer periods of wall-clock time a behaviour of SpecOutputs covers
OutClock == 3

\* how many times Play/Stop is pressed in a behaviour of SpecOutputs
OutToggles == 2

\* how many times an output is selected or the devices change in a behaviour
\* of SpecOutputs
MaxOutputEvents == 1

\* how many times AudioEngine.scheduleNote is called in a behaviour of
\* SpecEngine
MaxTriggers == 3

\* how many times AudioEngine.updateParams is called in a behaviour of
\* SpecEngine
MaxParamUpdates == 1

\* NOTES.length
NotesLength == 13

\* display rows of the note grid the clicks are drawn from (0 is the top row)
GridRows == {0, 7, 12}

\* values of Math.random() the RANDOMIZE draws are taken from, in hundredths,
\* one for each of active, noteIndex, accent, slide
RandomDraws == {<<0, 0, 0, 0>>, <<50, 45, 10, 85>>, <<99, 99, 99, 99>>}

\* indices handleStepChange is called with in SpecSetStep
AnyIndex == {-1, 0, 16}

\* note indices the calls of SpecEngine are drawn from
EngineNotes == {0, 12}

\* the oscillator types of the waveform switch
Waveforms == {"sawtooth", "square"}

\* the (cutoff, envMod) knob settings SpecEngine starts from
KnobSettings == {<<50, 70>>, <<0, 100>>}

\* tempos the inputs are drawn from (all divide 15000)
Tempos == {120, 300}

\* output devices the MIDI access offers
OutputIds == {"o1", "o2"}

\* the sets of devices access.outputs holds over time
DeviceSets == {OutputIds, {"o2"}}

\* the null selectedMidiOutputId
NoOutput == "none"

Steps == 0 .. (STEPS_PER_BAR - 1)

Max(a, b) == IF a >= b THEN a ELSE b

VARIABLES
  state,            \* the React state (latest value, all queued updaters applied)
  stateRef,         \* stateRef.current: the state as of the last render
  nextNoteTimeRef,  \* nextNoteTimeRef.current, audio-clock units
  currentStepRef,   \* currentStepRef.current
  timerIDRef,       \* timerIDRef.current, 0 for null
  timers,           \* the armed timeouts: records [id, due]
  audioTime,        \* AudioContext.currentTime
  perfTime,         \* performance.now()
  ctxState,         \* AudioContext.state
  awaiting,         \* togglePlay calls suspended at "await audioEngine.resume()"
  ready,            \* togglePlay continuations in the microtask queue
  outputs,          \* keys of MidiService.outputs
  sched,            \* every scheduleNote(stepNumber, time) call made so far
  voice,            \* every audioEngine.scheduleNote call made so far
  midi,             \* every output.send call made so far
  batch,            \* the sched entries of the latest scheduler() pass
  runId,            \* number of start branches completed so far
  runNow,           \* AudioContext.currentTime read by the latest start
  engine,           \* the AudioEngine singleton
  lastOp,           \* the handler that ran last
  budget            \* inputs still allowed by the bounds

vars == <<state, stateRef, nextNoteTimeRef, currentStepRef, timerIDRef, timers,
          audioTime, perfTime, ctxState, awaiting, ready, outputs, sched,
          voice, midi, batch, runId, runNow, engine, lastOp, budget>>

(***************************************************************************)
(* Initial pattern and state                                               *)
(***************************************************************************)
INITIAL_STEPS ==
  [i \in Steps |-> [active |-> (i % 4 = 0), noteIndex |-> 0,
                    accent |-> FALSE, slide |-> FALSE]]

\* a pattern edited before Play is pressed: an accented step on the highest
\* pitch, then a slide step, then a plain step
PatternA ==
  [INITIAL_STEPS EXCEPT
     ![0] = [active |-> TRUE, noteIndex |-> 12, accent |-> TRUE, slide |-> FALSE],
     ![1] = [active |-> TRUE, noteIndex |-> 5, accent |-> FALSE, slide |-> TRUE],
     ![2] = [active |-> TRUE, noteIndex |-> 0, accent |-> FALSE, slide |-> FALSE]]

\* a pattern edited before Play is pressed: the first step a slide step on
\* the highest pitch, the second a plain step on another pitch
PatternS ==
  [INITIAL_STEPS EXCEPT
     ![0] = [active |-> TRUE, noteIndex |-> 12, accent |-> FALSE, slide |-> TRUE],
     ![1] = [active |-> TRUE, noteIndex |-> 5, accent |-> FALSE, slide |-> FALSE]]

InitialState ==
  [bpm |-> 120, isPlaying |-> FALSE, currentStep |-> 0, steps |-> INITIAL_STEPS,
   waveform |-> "sawtooth", cutoff |-> 50, resonance |-> 60, decay |-> 40,
   envMod |-> 70, selectedMidiOutputId |-> NoOutput]

(***************************************************************************)
(* MidiService                                                             *)
(***************************************************************************)
\* output.send(data, timestamp): the message takes effect at "at"
Message(outputId, data, at) == [out |-> outputId, data |-> data, at |-> at]

\* sendNoteOn without the "if (output)" test
sendNoteOnUnguarded(log, outs, outputId, note, velocity, timestamp, now) ==
  Append(log, Message(outputId, <<144, note, velocity>>,
                      IF timestamp # 0 THEN timestamp ELSE now))

sendNoteOn(log, outs, outputId, note, velocity, timestamp, now) ==
  IF outputId \in outs
  THEN Append(log, Message(outputId, <<144, note, velocity>>,
                           IF timestamp # 0 THEN timestamp ELSE now))
  ELSE log

sendNoteOff(log, outs, outputId, note, timestamp, now) ==
  IF outputId \in outs
  THEN Append(log, Message(outputId, <<128, note, 0>>,
                           IF timestamp # 0 THEN timestamp ELSE now))
  ELSE log

allNotesOff(log, outs, outputId, now) ==
  IF outputId \in outs
  THEN Append(log, Message(outputId, <<176, 123, 0>>, now))
  ELSE log

(***************************************************************************)
(* AudioEngine (src/unnamed/part_003).  The engine is the record           *)
(*   chains            the oscillator/filter/amp chains created so far     *)
(*   osc               the chain this.osc, this.filter, this.vca name,     *)
(*                     0 for null                                          *)
(*   started           the osc.start(time) calls: [node, time]             *)
(*   type              osc.type                                            *)
(*   isPlaying, currentFrequency                                           *)
(*   frequency, Q, cutoff, gain                                            *)
(*                     the automation timelines of osc.frequency,          *)
(*                     filter.Q, filter.frequency and vca.gain: the events *)
(*                     [node, kind, value, time] in the order they were    *)
(*                     inserted, less the cancelled ones                   *)
(* Times are audio-clock units (ms).  Oscillator frequencies are in        *)
(* hundredths of a hertz, filter frequencies in hertz, Q and gain in       *)
(* tenths.                                                                 *)
(***************************************************************************)
NewEngine ==
  [chains |-> 0, osc |-> 0, started |-> <<>>, type |-> "none",
   isPlaying |-> FALSE, currentFrequency |-> 0,
   frequency |-> <<>>, Q |-> <<>>, cutoff |-> <<>>, gain |-> <<>>]

\* 440 * 2^((m - 69) / 12) for the MIDI notes of NOTES, rounded to 0.01 Hz
midiToFreq(m) ==
  <<13081, 13859, 14683, 15556, 16481, 17461, 18500, 19600, 20765, 22000,
    23308, 24694, 26163>>[m - 47]

Event(node, kind, value, time) ==
  [node |-> node, kind |-> kind, value |-> value, time |-> time]

\* AudioParam methods on a timeline
setValueAtTime(tl, node, value, time) ==
  Append(tl, Event(node, "setValue", value, time))

exponentialRampToValueAtTime(tl, node, value, time) ==
  Append(tl, Event(node, "exponentialRamp", value, time))

linearRampToValueAtTime(tl, node, value, time) ==
  Append(tl, Event(node, "linearRamp", value, time))

\* the time constant plays no part in the properties and is not recorded
setTargetAtTime(tl, node, target, startTime) ==
  Append(tl, Event(node, "setTarget", target, startTime))

\* removes the events scheduled at or after time
cancelScheduledValues(tl, time) ==
  SelectSeq(tl, LAMBDA ev : ev.time < time)

\* 200 + (cutoffVal / 100) * 8000, in hertz
BaseCutoff(cutoffVal) == 200 + cutoffVal * 80

\* (resVal / 100) * 20, in tenths
Resonance(resVal) == resVal * 2

\* (envModVal / 100) * 5000, in hertz
EnvAmount(envModVal) == envModVal * 50

\* 0.1 + (decayVal / 100) * 1.5, in ms
DecayTime(decayVal) == 100 + decayVal * 15

\* accent ? 2.0 : 1.0
accentFactorDouble(accent) == IF accent THEN 20 ELSE 10

\* accent ? 1.5 : 1.0, in tenths (accentGain and accentEnv)
accentFactor(accent) == IF accent THEN 15 ELSE 10

\* the test that creates a chain on every call
voiceMissingAlways(e) == TRUE

\* !this.osc || !this.filter || !this.vca
voiceMissing(e) == e.osc = 0

initVoice(e, waveform, time) ==
  LET node == e.chains + 1
  IN  [e EXCEPT !.chains = node, !.osc = node, !.type = waveform,
                !.started = Append(@, [node |-> node, time |-> time])]

\* a glide on every slide step, sounding or not
glidesOnSlide(e, slide) == slide

\* slide && this.isPlaying
glides(e, slide) == slide /\ e.isPlaying

\* "-- Oscillator Pitch --"
oscillatorPitch(e, freq, time, slide, waveform) ==
  IF glides(e, slide)
  THEN [e EXCEPT !.frequency =
          exponentialRampToValueAtTime(
            setValueAtTime(@, e.osc, e.currentFrequency, time),
            e.osc, freq, time + 100)]
  ELSE [e EXCEPT !.frequency = setValueAtTime(@, e.osc, freq, time),
                 !.type = waveform]

\* "-- Filter Envelope --": both branches of "if (!slide)" make the same calls
filterEnvelope(e, time, slide, accent, cutoffVal, resVal, decayVal, envModVal) ==
  LET baseCutoff == BaseCutoff(cutoffVal)
      peak == baseCutoff + (EnvAmount(envModVal) * accentFactor(accent)) \div 10
  IN  [e EXCEPT
         !.Q = setValueAtTime(@, e.osc, Resonance(resVal), time),
         !.cutoff =
           exponentialRampToValueAtTime(
             exponentialRampToValueAtTime(
               setValueAtTime(cancelScheduledValues(@, time), e.osc, baseCutoff, time),
               e.osc, peak, time + 10),
             e.osc, baseCutoff, time + DecayTime(decayVal))]

\* the attack that starts from zero on slide steps too
vcaAttackRetrigger(tl, node, time, slide, accent) ==
  linearRampToValueAtTime(setValueAtTime(tl, node, 0, time),
                          node, accentFactor(accent), time + 5)

\* "-- Amplitude (VCA) Envelope --", after the cancelScheduledValues
vcaAttack(tl, node, time, slide, accent) ==
  IF ~slide
  THEN linearRampToValueAtTime(setValueAtTime(tl, node, 0, time),
                               node, accentFactor(accent), time + 5)
  ELSE setValueAtTime(tl, node, accentFactor(accent), time)

\* "Release"
vcaRelease(tl, node, time, duration, slide) ==
  LET stopTime == time + duration - 20
  IN  IF slide
      THEN setTargetAtTime(tl, node, 0, time + duration + 50)
      ELSE setTargetAtTime(tl, node, 0, stopTime)

\* AudioEngine.scheduleNote; the "Safety check" return cannot be taken, as
\* initVoice sets the three nodes
audioEngineScheduleNote(e, noteIndex, time, duration, slide, accent, waveform, cutoffVal, resVal, decayVal, envModVal) ==
  LET freq == midiToFreq(NoteMidi(noteIndex))
      e1 == IF voiceMissing(e) THEN initVoice(e, waveform, time) ELSE e
      e2 == oscillatorPitch(e1, freq, time, slide, waveform)
      e3 == [e2 EXCEPT !.currentFrequency = freq, !.isPlaying = TRUE]
      e4 == filterEnvelope(e3, time, slide, accent, cutoffVal, resVal,
                           decayVal, envModVal)
  IN  [e4 EXCEPT !.gain =
         vcaRelease(vcaAttack(cancelScheduledValues(@, time), e4.osc, time,
                              slide, accent),
                    e4.osc, time, duration, slide)]

\* AudioEngine.updateParams, called at audio-clock time now
updateParams(e, params, now) ==
  IF e.osc = 0
  THEN e
  ELSE [e EXCEPT
          !.Q = setTargetAtTime(@, e.osc, Resonance(params.resonance), now),
          !.cutoff = setTargetAtTime(@, e.osc, BaseCutoff(params.cutoff), now),
          !.type = IF @ # params.waveform THEN params.waveform ELSE @]

(***************************************************************************)
(* Scheduler logic.  m is the mutable part a scheduler() pass touches:     *)
(* [t, step, ui, sched, voice, midi, batch, engine]; s is                  *)
(* stateRef.current.                                                       *)
(***************************************************************************)
\* noteOffDelay with the delay forgotten
noteOffDelayZero(step, duration) == 0

noteOffDelay(step, duration) ==
  IF step.slide THEN (SecToPerf(duration) * 11) \div 10
                ELSE (SecToPerf(duration) * 9) \div 10

\* scheduleNote sending every note-on with the velocity of a plain step
scheduleNoteMidiPlain(log, s, step, time, duration, outs, aNow, pNow) ==
  IF s.selectedMidiOutputId # NoOutput
  THEN LET midiNote == NoteMidi(step.noteIndex)
           velocity == 100
           performanceTime == pNow + SecToPerf(time - aNow)
           safeTime == Max(pNow, performanceTime)
           on == sendNoteOn(log, outs, s.selectedMidiOutputId, midiNote,
                            velocity, safeTime, pNow)
       IN  sendNoteOff(on, outs, s.selectedMidiOutputId, midiNote,
                       safeTime + noteOffDelay(step, duration), pNow)
  ELSE log

\* scheduleNote without the Math.max: safeTime = performanceTime
scheduleNoteMidiUnclamped(log, s, step, time, duration, outs, aNow, pNow) ==
  IF s.selectedMidiOutputId # NoOutput
  THEN LET midiNote == NoteMidi(step.noteIndex)
           velocity == IF step.accent THEN 127 ELSE 100
           performanceTime == pNow + SecToPerf(time - aNow)
           safeTime == performanceTime
           on == sendNoteOn(log, outs, s.selectedMidiOutputId, midiNote,
                            velocity, safeTime, pNow)
       IN  sendNoteOff(on, outs, s.selectedMidiOutputId, midiNote,
                       safeTime + noteOffDelay(step, duration), pNow)
  ELSE log

scheduleNoteMidi(log, s, step, time, duration, outs, aNow, pNow) ==
  IF s.selectedMidiOutputId # NoOutput
  THEN LET midiNote == NoteMidi(step.noteIndex)
           velocity == IF step.accent THEN 127 ELSE 100
           performanceTime == pNow + SecToPerf(time - aNow)
           safeTime == Max(pNow, performanceTime)
           on == sendNoteOn(log, outs, s.selectedMidiOutputId, midiNote,
                            velocity, safeTime, pNow)
       IN  sendNoteOff(on, outs, s.selectedMidiOutputId, midiNote,
                       safeTime + noteOffDelay(step, duration), pNow)
  ELSE log

\* scheduleNote without the "if (step.active)" test
scheduleNoteAll(m, s, run, outs, aNow, pNow) ==
  LET step == s.steps[m.step]
      entry == [step |-> m.step, time |-> m.t, bpm |-> s.bpm,
                active |-> step.active, run |-> run]
  IN  [m EXCEPT
         !.sched = Append(@, entry),
         !.batch = Append(@, entry),
         !.voice = Append(@, [noteIndex |-> step.noteIndex, time |-> m.t,
                              duration |-> SecondsPer16th(s.bpm),
                              slide |-> step.slide, accent |-> step.accent])]

scheduleNote(m, s, run, outs, aNow, pNow) ==
  LET stepNumber == m.step
      time == m.t
      step == s.steps[stepNumber]
      entry == [step |-> stepNumber, time |-> time, bpm |-> s.bpm,
                active |-> step.active, run |-> run]
      duration == SecondsPer16th(s.bpm)
  IN  [m EXCEPT
         !.sched = Append(@, entry),
         !.batch = Append(@, entry),
         !.voice = IF step.active
                   THEN Append(@, [noteIndex |-> step.noteIndex, time |-> time,
                                   duration |-> duration, slide |-> step.slide,
                                   accent |-> step.accent])
                   ELSE @,
         !.engine = IF step.active
                    THEN audioEngineScheduleNote(@, step.noteIndex, time, duration,
                                                 step.slide, step.accent, s.waveform,
                                                 s.cutoff, s.resonance, s.decay,
                                                 s.envMod)
                    ELSE @,
         !.midi = IF step.active
                  THEN scheduleNoteMidi(@, s, step, time, duration, outs, aNow, pNow)
                  ELSE @]

\* nextNote advancing by an 8th note (secondsPerBeat / 2)
nextNote8th(m, s) ==
  LET nextStep == (m.step + 1) % STEPS_PER_BAR
  IN  [m EXCEPT !.t = @ + (30000 \div s.bpm), !.step = nextStep, !.ui = nextStep]

\* nextNote reading the tempo of the latest state, rendered or not
nextNoteLatest(m, s) ==
  LET secondsPer16th == SecondsPer16th(state.bpm)
      nextStep == (m.step + 1) % STEPS_PER_BAR
  IN  [m EXCEPT !.t = @ + secondsPer16th, !.step = nextStep, !.ui = nextStep]

\* nextNote stepping over every other step
nextNoteSkip(m, s) ==
  LET secondsPer16th == SecondsPer16th(s.bpm)
      nextStep == (m.step + 2) % STEPS_PER_BAR
  IN  [m EXCEPT !.t = @ + secondsPer16th, !.step = nextStep, !.ui = nextStep]

nextNote(m, s) ==
  LET secondsPer16th == SecondsPer16th(s.bpm)
      nextStep == (m.step + 1) % STEPS_PER_BAR
  IN  [m EXCEPT !.t = @ + secondsPer16th, !.step = nextStep, !.ui = nextStep]

\* the catch-up loop written as "if" instead of "while"
schedulerOnce(m, s, run, outs, aNow, pNow) ==
  IF m.t < aNow + SCHEDULE_AHEAD_TIME
  THEN nextNote(scheduleNote(m, s, run, outs, aNow, pNow), s)
  ELSE m

\* the catch-up loop with "<=" for "<"
RECURSIVE schedulerLoopInclusive(_, _, _, _, _, _)
schedulerLoopInclusive(m, s, run, outs, aNow, pNow) ==
  IF m.t <= aNow + SCHEDULE_AHEAD_TIME
  THEN schedulerLoopInclusive(nextNote(scheduleNote(m, s, run, outs, aNow, pNow), s),
                              s, run, outs, aNow, pNow)
  ELSE m

RECURSIVE schedulerLoop(_, _, _, _, _, _)
schedulerLoop(m, s, run, outs, aNow, pNow) ==
  IF m.t < aNow + SCHEDULE_AHEAD_TIME
  THEN schedulerLoop(nextNote(scheduleNote(m, s, run, outs, aNow, pNow), s),
                     s, run, outs, aNow, pNow)
  ELSE m

\* window.setTimeout: an id that names no armed timeout and is not the one
\* timerIDRef still holds
FreshTimerId(armed, held) ==
  CHOOSE i \in 1 .. (Cardinality(armed) + 2) :
    i # held /\ \A tm \in armed : tm.id # i

\* scheduler() arming a second timeout, one period after the first
schedulerRearmTwice(st, t, step, armed, run) ==
  LET m0 == [t |-> t, step |-> step, ui |-> st.currentStep, sched |-> sched,
             voice |-> voice, midi |-> midi, batch |-> <<>>, engine |-> engine]
      m == schedulerLoop(m0, stateRef, run, outputs, audioTime, perfTime)
      id == 2 * Cardinality(armed) + timerIDRef + 1
  IN  /\ nextNoteTimeRef' = m.t
      /\ currentStepRef' = m.step
      /\ state' = [st EXCEPT !.currentStep = m.ui]
      /\ sched' = m.sched
      /\ voice' = m.voice
      /\ midi' = m.midi
      /\ batch' = m.batch
      /\ engine' = m.engine
      /\ timers' = armed \cup {[id |-> id, due |-> perfTime + MsToPerf(LOOKAHEAD)],
                                [id |-> id + 1, due |-> perfTime + 2 * MsToPerf(LOOKAHEAD)]}
      /\ timerIDRef' = id + 1

\* the body of scheduler(): the catch-up loop, then the re-arming setTimeout.
\* st is the React state the handler has produced so far, (t, step) the refs,
\* armed the timeouts still armed, run the number of the current run.
scheduler(st, t, step, armed, run) ==
  LET m0 == [t |-> t, step |-> step, ui |-> st.currentStep, sched |-> sched,
             voice |-> voice, midi |-> midi, batch |-> <<>>, engine |-> engine]
      m == schedulerLoop(m0, stateRef, run, outputs, audioTime, perfTime)
      id == FreshTimerId(armed, timerIDRef)
  IN  /\ nextNoteTimeRef' = m.t
      /\ currentStepRef' = m.step
      /\ state' = [st EXCEPT !.currentStep = m.ui]
      /\ sched' = m.sched
      /\ voice' = m.voice
      /\ midi' = m.midi
      /\ batch' = m.batch
      /\ engine' = m.engine
      /\ timers' = armed \cup {[id |-> id, due |-> perfTime + MsToPerf(LOOKAHEAD)]}
      /\ timerIDRef' = id

(***************************************************************************)
(* Initial states: the page is loaded, the MIDI access is granted, the     *)
(* audio context (created without a user gesture) is suspended.  st is the *)
(* state the user has set up before the first press of Play, b the inputs  *)
(* the behaviour may still take.                                           *)
(***************************************************************************)
InitWith(st, b) ==
  /\ state = st
  /\ stateRef = st
  /\ nextNoteTimeRef = 0
  /\ currentStepRef = 0
  /\ timerIDRef = 0
  /\ timers = {}
  /\ audioTime = 0
  /\ perfTime = MsToPerf(LOOKAHEAD)
  /\ ctxState = "suspended"
  /\ awaiting = 0
  /\ ready = 0
  /\ outputs = OutputIds
  /\ sched = <<>>
  /\ voice = <<>>
  /\ midi = <<>>
  /\ batch = <<>>
  /\ runId = 0
  /\ runNow = 0
  /\ engine = NewEngine
  /\ lastOp = "init"
  /\ budget = b

Budget(clock, late, toggles, tempo, edits, selects) ==
  [idle |-> MaxIdle, resume |-> MaxResume, clock |-> clock, late |-> late, toggles |-> toggles,
   tempo |-> tempo, edits |-> edits, selects |-> selects]

\* Play has not been pressed yet
Idle == runId = 0 /\ awaiting = 0 /\ ready = 0

(***************************************************************************)
(* Environment: clocks, rendering, the audio context                       *)
(***************************************************************************)
\* which bound a timer period counts against: the wait before the first
\* press, the wait for ctx.resume(), or the run
Phase == IF Idle THEN "idle" ELSE IF awaiting > 0 THEN "resume" ELSE "clock"

\* Time passes by one timer period.  The audio clock stands still while the
\* context is suspended.  A timeout is delivered at most budget.late periods
\* late.
AdvanceTime ==
  /\ ready = 0
  /\ budget[Phase] > 0
  /\ \A tm \in timers :
       perfTime + MsToPerf(LOOKAHEAD) <= tm.due + MsToPerf(LOOKAHEAD) * budget.late
  /\ budget' = [budget EXCEPT ![Phase] = @ - 1]
  /\ perfTime' = perfTime + MsToPerf(LOOKAHEAD)
  /\ audioTime' = IF ctxState = "running" THEN audioTime + LOOKAHEAD ELSE audioTime
  /\ lastOp' = "time"
  /\ UNCHANGED engine
  /\ UNCHANGED <<state, stateRef, nextNoteTimeRef, currentStepRef, timerIDRef,
                 timers, ctxState, awaiting, ready, outputs, sched, voice, midi,
                 batch, runId, runNow>>

\* React renders and the effect "stateRef.current = state" runs
Render ==
  /\ ready = 0
  /\ stateRef # state
  /\ stateRef' = state
  /\ lastOp' = "render"
  /\ UNCHANGED engine
  /\ UNCHANGED <<state, nextNoteTimeRef, currentStepRef, timerIDRef, timers,
                 audioTime, perfTime, ctxState, awaiting, ready, outputs, sched,
                 voice, midi, batch, runId, runNow, budget>>

\* ctx.resume() resolves: every togglePlay awaiting it continues, in order,
\* before any other task runs
ResumeResolved ==
  /\ ready = 0
  /\ ctxState = "suspended"
  /\ awaiting > 0
  /\ ctxState' = "running"
  /\ ready' = awaiting
  /\ awaiting' = 0
  /\ lastOp' = "resume"
  /\ UNCHANGED engine
  /\ UNCHANGED <<state, stateRef, nextNoteTimeRef, currentStepRef, timerIDRef,
                 timers, audioTime, perfTime, outputs, sched, voice, midi, batch,
                 runId, runNow, budget>>

(***************************************************************************)
(* Controls                                                                *)
(***************************************************************************)
\* togglePlay, stop branch
togglePlayStop ==
  /\ timers' = IF timerIDRef # 0 THEN {tm \in timers : tm.id # timerIDRef}
                                 ELSE timers
  /\ state' = [state EXCEPT !.isPlaying = FALSE, !.currentStep = 0]
  /\ currentStepRef' = 0
  /\ midi' = IF stateRef.selectedMidiOutputId # NoOutput
             THEN allNotesOff(midi, outputs, stateRef.selectedMidiOutputId, perfTime)
             ELSE midi
  /\ lastOp' = "stop"
  /\ UNCHANGED engine
  /\ UNCHANGED <<stateRef, nextNoteTimeRef, timerIDRef, audioTime, perfTime,
                 ctxState, awaiting, ready, outputs, sched, voice, batch, runId,
                 runNow>>

\* togglePlay, start branch up to "await audioEngine.resume()"
togglePlayAwait ==
  /\ IF ctxState = "suspended"
     THEN awaiting' = awaiting + 1 /\ ready' = ready
     ELSE ready' = ready + 1 /\ awaiting' = awaiting
  /\ lastOp' = "play"
  /\ UNCHANGED engine
  /\ UNCHANGED <<state, stateRef, nextNoteTimeRef, currentStepRef, timerIDRef,
                 timers, audioTime, perfTime, ctxState, outputs, sched, voice,
                 midi, batch, runId, runNow>>

\* the Play/Stop button or the P key
togglePlay ==
  /\ ready = 0
  /\ budget.toggles > 0
  /\ budget' = [budget EXCEPT !.toggles = @ - 1]
  /\ LET isCurrentlyPlaying == stateRef.isPlaying
     IN  IF isCurrentlyPlaying THEN togglePlayStop ELSE togglePlayAwait

\* the start branch without the reset of nextNoteTimeRef and currentStepRef
togglePlayStartStale ==
  /\ ready > 0
  /\ ready' = ready - 1
  /\ runId' = runId + 1
  /\ runNow' = audioTime
  /\ scheduler([state EXCEPT !.isPlaying = TRUE, !.currentStep = 0],
               nextNoteTimeRef, currentStepRef, timers, runId + 1)
  /\ lastOp' = "start"
  /\ UNCHANGED <<stateRef, audioTime, perfTime, ctxState, awaiting, outputs,
                 budget>>

\* togglePlay, start branch after the await
togglePlayStart ==
  /\ ready > 0
  /\ ready' = ready - 1
  /\ runId' = runId + 1
  /\ runNow' = audioTime
  /\ scheduler([state EXCEPT !.isPlaying = TRUE, !.currentStep = 0],
               audioTime + LeadIn, 0, timers, runId + 1)
  /\ lastOp' = "start"
  /\ UNCHANGED <<stateRef, audioTime, perfTime, ctxState, awaiting, outputs,
                 budget>>

\* the timeout callback: scheduler()
Tick ==
  /\ ready = 0
  /\ \E tm \in timers :
       /\ tm.due <= perfTime
       /\ scheduler(state, nextNoteTimeRef, currentStepRef, timers \ {tm}, runId)
  /\ lastOp' = "tick"
  /\ UNCHANGED <<stateRef, audioTime, perfTime, ctxState, awaiting, ready,
                 outputs, runId, runNow, budget>>

\* a tempo change that also re-anchors the next trigger at the audio clock
SetBpmRetime ==
  /\ ready = 0
  /\ budget.tempo > 0
  /\ \E v \in Tempos :
       /\ v # state.bpm
       /\ state' = [state EXCEPT !.bpm = v]
  /\ nextNoteTimeRef' = audioTime
  /\ budget' = [budget EXCEPT !.tempo = @ - 1]
  /\ lastOp' = "bpm"
  /\ UNCHANGED engine
  /\ UNCHANGED <<stateRef, currentStepRef, timerIDRef, timers,
                 audioTime, perfTime, ctxState, awaiting, ready, outputs, sched,
                 voice, midi, batch, runId, runNow>>

\* the tempo slider
SetBpm ==
  /\ ready = 0
  /\ budget.tempo > 0
  /\ \E v \in Tempos :
       /\ v # state.bpm
       /\ state' = [state EXCEPT !.bpm = v]
  /\ budget' = [budget EXCEPT !.tempo = @ - 1]
  /\ lastOp' = "bpm"
  /\ UNCHANGED engine
  /\ UNCHANGED <<stateRef, nextNoteTimeRef, currentStepRef, timerIDRef, timers,
                 audioTime, perfTime, ctxState, awaiting, ready, outputs, sched,
                 voice, midi, batch, runId, runNow>>

\* a selector that silences the output it leaves
SelectOutputPanic ==
  /\ ready = 0
  /\ budget.selects > 0
  /\ \E o \in OutputIds \cup {NoOutput} :
       /\ o # state.selectedMidiOutputId
       /\ state' = [state EXCEPT !.selectedMidiOutputId = o]
  /\ midi' = allNotesOff(midi, outputs, state.selectedMidiOutputId, perfTime)
  /\ budget' = [budget EXCEPT !.selects = @ - 1]
  /\ lastOp' = "select"
  /\ UNCHANGED engine
  /\ UNCHANGED <<stateRef, nextNoteTimeRef, currentStepRef, timerIDRef, timers,
                 audioTime, perfTime, ctxState, awaiting, ready, outputs, sched,
                 voice, batch, runId, runNow>>

\* the MIDI output selector; its options are midiOutputs, the outputs listed
\* once when the MIDI access was granted
SelectOutput ==
  /\ ready = 0
  /\ budget.selects > 0
  /\ \E o \in OutputIds \cup {NoOutput} :
       /\ o # state.selectedMidiOutputId
       /\ state' = [state EXCEPT !.selectedMidiOutputId = o]
  /\ budget' = [budget EXCEPT !.selects = @ - 1]
  /\ lastOp' = "select"
  /\ UNCHANGED engine
  /\ UNCHANGED <<stateRef, nextNoteTimeRef, currentStepRef, timerIDRef, timers,
                 audioTime, perfTime, ctxState, awaiting, ready, outputs, sched,
                 voice, midi, batch, runId, runNow>>

\* access.onstatechange: a device is unplugged or plugged in again and
\* updateOutputs() rebuilds the map
StateChange ==
  /\ ready = 0
  /\ budget.selects > 0
  /\ \E devices \in DeviceSets :
       /\ devices # outputs
       /\ outputs' = devices
  /\ budget' = [budget EXCEPT !.selects = @ - 1]
  /\ lastOp' = "statechange"
  /\ UNCHANGED engine
  /\ UNCHANGED <<state, stateRef, nextNoteTimeRef, currentStepRef, timerIDRef,
                 timers, audioTime, perfTime, ctxState, awaiting, ready, sched,
                 voice, midi, batch, runId, runNow>>

\* the partial updates the grid sends for step i of the rendered pattern
Partials(step) ==
  { [active |-> FALSE], [active |-> TRUE, noteIndex |-> 5],
    [accent |-> ~step.accent], [slide |-> ~step.slide] }

\* { ...old, ...partial }
Merge(old, partial) ==
  [f \in DOMAIN old \cup DOMAIN partial |->
     IF f \in DOMAIN partial THEN partial[f] ELSE old[f]]

\* [...arr]: the elements at the array indices; a property that is not an
\* array index (a negative key) is not copied
Spread(arr) == [j \in {k \in DOMAIN arr : k >= 0} |-> arr[j]]

\* arr[index] = { ...arr[index], ...partial }: an index the array does not have
\* reads as undefined, whose spread adds nothing, and the assignment adds
\* the element
AssignMerged(arr, index, partial) ==
  [j \in DOMAIN arr \cup {index} |->
     IF j # index THEN arr[j]
     ELSE IF j \in DOMAIN arr THEN Merge(arr[j], partial) ELSE partial]

\* handleStepChange(index, partial): state.steps is the pattern of the render
\* the handler was created in
handleStepChange(index, partial) ==
  LET newSteps == AssignMerged(Spread(stateRef.steps), index, partial)
  IN  state' = [state EXCEPT !.steps = newSteps]

\* steps the edited inputs are drawn from
EditSteps == {0, 1}

StepChange ==
  /\ ready = 0
  /\ budget.edits > 0
  /\ \E index \in EditSteps :
       \E partial \in Partials(stateRef.steps[index]) :
         handleStepChange(index, partial)
  /\ budget' = [budget EXCEPT !.edits = @ - 1]
  /\ lastOp' = "edit"
  /\ UNCHANGED engine
  /\ UNCHANGED <<stateRef, nextNoteTimeRef, currentStepRef, timerIDRef, timers,
                 audioTime, perfTime, ctxState, awaiting, ready, outputs, sched,
                 voice, midi, batch, runId, runNow>>

(***************************************************************************)
(* The tempo controls                                                      *)
(***************************************************************************)
Min(a, b) == IF a <= b THEN a ELSE b

\* the frame of a tempo update
TempoUpdate(op) ==
  /\ ready = 0
  /\ budget.tempo > 0
  /\ budget' = [budget EXCEPT !.tempo = @ - 1]
  /\ lastOp' = op
  /\ UNCHANGED engine
  /\ UNCHANGED <<stateRef, nextNoteTimeRef, currentStepRef, timerIDRef, timers,
                 audioTime, perfTime, ctxState, awaiting, ready, outputs, sched,
                 voice, midi, batch, runId, runNow>>

\* the tempo input storing the number as typed
tempoInputUnclamped(value) ==
  /\ state' = [state EXCEPT !.bpm = value]
  /\ TempoUpdate("tempoInput")

\* onChange of the tempo input; value is Number(e.target.value)
tempoInput(value) ==
  /\ state' = [state EXCEPT !.bpm = Max(20, Min(300, value))]
  /\ TempoUpdate("tempoInput")

\* the Q key
KeyQ ==
  /\ state' = [state EXCEPT !.bpm = Min(300, @ + 1)]
  /\ TempoUpdate("q")

\* the A key
KeyA ==
  /\ state' = [state EXCEPT !.bpm = Max(20, @ - 1)]
  /\ TempoUpdate("a")

\* the value of an <input type="range" min max>: the element keeps the
\* value asked of it within its min and max
RangeValue(min, max, value) == Max(min, Min(max, value))

\* onChange of the Tempo VerticalSlider (min 20, max 300)
tempoSlider(value) ==
  /\ state' = [state EXCEPT !.bpm = RangeValue(20, 300, value)]
  /\ TempoUpdate("tempoSlider")

TempoInput == \E value \in TempoRequests : tempoInput(value)

TempoSlider == \E value \in TempoRequests : tempoSlider(value)

(***************************************************************************)
(* The pattern editor: SequencerGrid and the CLEAR and RANDOMIZE buttons   *)
(***************************************************************************)
\* a call onStepChange(index, partial) from the grid
setStep(index, partial) ==
  /\ ready = 0
  /\ budget.edits > 0
  /\ handleStepChange(index, partial)
  /\ budget' = [budget EXCEPT !.edits = @ - 1]
  /\ lastOp' = "edit"
  /\ UNCHANGED engine
  /\ UNCHANGED <<stateRef, nextNoteTimeRef, currentStepRef, timerIDRef, timers,
                 audioTime, perfTime, ctxState, awaiting, ready, outputs, sched,
                 voice, midi, batch, runId, runNow>>

\* handleGridClick with realNoteIndex = NOTES.length - noteIndex
handleGridClickOffByOne(steps, stepIndex, noteIndex) ==
  LET realNoteIndex == NotesLength - noteIndex
      step == steps[stepIndex]
  IN  IF step.active /\ step.noteIndex = realNoteIndex
      THEN [active |-> FALSE]
      ELSE [active |-> TRUE, noteIndex |-> realNoteIndex]

\* handleGridClick(stepIndex, noteIndex): the partial it passes to
\* onStepChange; steps is the pattern the grid was rendered with and
\* noteIndex the display row, the highest pitch on row 0
handleGridClick(steps, stepIndex, noteIndex) ==
  LET realNoteIndex == (NotesLength - 1) - noteIndex
      step == steps[stepIndex]
  IN  IF step.active /\ step.noteIndex = realNoteIndex
      THEN [active |-> FALSE]
      ELSE [active |-> TRUE, noteIndex |-> realNoteIndex]

\* a click on a cell of the note grid
GridClick ==
  \E stepIndex \in EditSteps : \E noteIndex \in GridRows :
    setStep(stepIndex, handleGridClick(stateRef.steps, stepIndex, noteIndex))

\* a click on a button of the accent row
AccentClick ==
  \E i \in EditSteps : setStep(i, [accent |-> ~stateRef.steps[i].accent])

\* a click on a button of the slide row
SlideClick ==
  \E i \in EditSteps : setStep(i, [slide |-> ~stateRef.steps[i].slide])

\* the CLEAR button
Clear ==
  /\ ready = 0
  /\ budget.edits > 0
  /\ LET prev == Spread(state.steps)
     IN  state' = [state EXCEPT
                     !.steps = [j \in DOMAIN prev |->
                                  Merge(prev[j], [active |-> FALSE])]]
  /\ budget' = [budget EXCEPT !.edits = @ - 1]
  /\ lastOp' = "clear"
  /\ UNCHANGED engine
  /\ UNCHANGED <<stateRef, nextNoteTimeRef, currentStepRef, timerIDRef, timers,
                 audioTime, perfTime, ctxState, awaiting, ready, outputs, sched,
                 voice, midi, batch, runId, runNow>>

\* the step RANDOMIZE makes of s; r holds the four values Math.random()
\* returns, in hundredths
RandomStep(s, r) ==
  Merge(s, [active |-> r[1] > 40, noteIndex |-> (r[2] * 12) \div 100,
            accent |-> r[3] > 70, slide |-> r[4] > 80])

\* the RANDOMIZE button; the even steps share one draw and the odd steps
\* another
Randomize ==
  /\ ready = 0
  /\ budget.edits > 0
  /\ \E even \in RandomDraws : \E odd \in RandomDraws :
       LET prev == Spread(state.steps)
       IN  state' = [state EXCEPT
                       !.steps = [j \in DOMAIN prev |->
                                    RandomStep(prev[j],
                                               IF j % 2 = 0 THEN even ELSE odd)]]
  /\ budget' = [budget EXCEPT !.edits = @ - 1]
  /\ lastOp' = "randomize"
  /\ UNCHANGED engine
  /\ UNCHANGED <<stateRef, nextNoteTimeRef, currentStepRef, timerIDRef, timers,
                 audioTime, perfTime, ctxState, awaiting, ready, outputs, sched,
                 voice, midi, batch, runId, runNow>>

\* handleStepChange called with any index, also one the pattern does not have
SetStepAny ==
  \E index \in AnyIndex :
    \E partial \in Partials(INITIAL_STEPS[0]) : setStep(index, partial)

(***************************************************************************)
(* Spec: the transport.  Play/Stop presses, timer callbacks (up to MaxLate  *)
(* periods late), renders and the audio-context resume interleave freely;  *)
(* the tempo and the pattern stay as loaded; output o1 is selected.        *)
(***************************************************************************)
Init ==
  InitWith([InitialState EXCEPT !.selectedMidiOutputId = "o1"],
           Budget(MaxClock, MaxLate, MaxToggles, 0, 0, 0))

Next ==
  \/ AdvanceTime
  \/ Render
  \/ ResumeResolved
  \/ togglePlay
  \/ togglePlayStart
  \/ Tick

Spec == Init /\ [][Next]_vars

(***************************************************************************)
(* SpecTempo: one run whose tempo changes while it plays.                  *)
(***************************************************************************)
InitTempo ==
  \E v \in Tempos :
    InitWith([InitialState EXCEPT !.bpm = v],
             Budget(TempoClock, TempoLate, 1, MaxTempoChanges, 0, 0))

NextTempo ==
  \/ AdvanceTime
  \/ Render
  \/ ResumeResolved
  \/ togglePlay
  \/ togglePlayStart
  \/ Tick
  \/ SetBpm

SpecTempo == InitTempo /\ [][NextTempo]_vars

(***************************************************************************)
(* SpecLoop: one run at one tempo, long enough for full passes over the    *)
(* pattern, with one pattern edit at any moment.                           *)
(***************************************************************************)
InitLoop ==
  \E v \in Tempos :
    InitWith([InitialState EXCEPT !.bpm = v],
             Budget(LoopClock, LoopLate, 1, 0, MaxEdits, 0))

NextLoop ==
  \/ AdvanceTime
  \/ Render
  \/ ResumeResolved
  \/ togglePlay
  \/ togglePlayStart
  \/ Tick
  \/ StepChange

SpecLoop == InitLoop /\ [][NextLoop]_vars

(***************************************************************************)
(* SpecEdit: the pattern editor while the transport is stopped.  Clicks on *)
(* the grid and on CLEAR and RANDOMIZE interleave with the renders.        *)
(***************************************************************************)
InitEdit == InitWith(InitialState, Budget(0, 0, 0, 0, MaxPatternOps, 0))

NextEdit ==
  \/ GridClick
  \/ AccentClick
  \/ SlideClick
  \/ Clear
  \/ Randomize
  \/ Render

SpecEdit == InitEdit /\ [][NextEdit]_vars

(***************************************************************************)
(* SpecSetStep: handleStepChange as a function of any index.               *)
(***************************************************************************)
InitSetStep == InitWith(InitialState, Budget(0, 0, 0, 0, MaxSetSteps, 0))

NextSetStep ==
  \/ SetStepAny
  \/ Clear
  \/ Render

SpecSetStep == InitSetStep /\ [][NextSetStep]_vars

(***************************************************************************)
(* SpecBpm: the tempo controls while the transport is stopped.             *)
(***************************************************************************)
InitBpm == InitWith(InitialState, Budget(0, 0, 0, MaxTempoOps, 0, 0))

NextBpm ==
  \/ TempoInput
  \/ TempoSlider
  \/ KeyQ
  \/ KeyA
  \/ Render

SpecBpm == InitBpm /\ [][NextBpm]_vars

(***************************************************************************)
(* SpecOutputs: the transport while the user selects outputs and devices   *)
(* come and go.                                                            *)
(***************************************************************************)
InitOutputs ==
  \E v \in Tempos : \E o \in {NoOutput, "o1"} :
    InitWith([InitialState EXCEPT !.bpm = v, !.steps = PatternA,
                                  !.selectedMidiOutputId = o],
             Budget(OutClock, MaxLate, OutToggles, 0, 0, MaxOutputEvents))

NextOutputs ==
  \/ AdvanceTime
  \/ Render
  \/ ResumeResolved
  \/ togglePlay
  \/ togglePlayStart
  \/ Tick
  \/ SelectOutput
  \/ StateChange

SpecOutputs == InitOutputs /\ [][NextOutputs]_vars

(***************************************************************************)
(* SpecMidi: one run sent to output o1, with late ticks and a tempo        *)
(* change, over a pattern with an accent and a slide.                      *)
(***************************************************************************)
InitMidi ==
  \E v \in Tempos :
    InitWith([InitialState EXCEPT !.bpm = v, !.steps = PatternA,
                                  !.selectedMidiOutputId = "o1"],
             Budget(TempoClock, TempoLate, 1, MaxTempoChanges, 0, 0))

NextMidi ==
  \/ AdvanceTime
  \/ Render
  \/ ResumeResolved
  \/ togglePlay
  \/ togglePlayStart
  \/ Tick
  \/ SetBpm

SpecMidi == InitMidi /\ [][NextMidi]_vars

(***************************************************************************)
(* SpecRestart: the transport of Spec at tempo 300 over a pattern whose    *)
(* first step is a slide step.                                             *)
(***************************************************************************)
InitRestart ==
  InitWith([InitialState EXCEPT !.bpm = 300, !.steps = PatternS],
           Budget(MaxClock, MaxLate, MaxToggles, 0, 0, 0))

SpecRestart == InitRestart /\ [][Next]_vars

(***************************************************************************)
(* SpecEngine: the AudioEngine driven directly, by scheduleNote calls for  *)
(* successive 16th notes, with the arguments scheduleNote of App.tsx       *)
(* passes, and by updateParams calls.                                      *)
(***************************************************************************)
InitEngine ==
  \E k \in KnobSettings :
    InitWith([InitialState EXCEPT !.cutoff = k[1], !.envMod = k[2]],
             Budget(0, 0, 0, 0, MaxParamUpdates, 0))

\* audioEngine.scheduleNote(noteIndex, time, duration, slide, accent, ...)
\* for the step due at nextNoteTimeRef
EngineTrigger(noteIndex, slide, accent) ==
  LET s == stateRef
      time == nextNoteTimeRef
      duration == SecondsPer16th(s.bpm)
  IN  /\ Len(voice) < MaxTriggers
      /\ engine' = audioEngineScheduleNote(engine, noteIndex, time, duration,
                                            slide, accent, s.waveform, s.cutoff,
                                            s.resonance, s.decay, s.envMod)
      /\ voice' = Append(voice, [noteIndex |-> noteIndex, time |-> time,
                                   duration |-> duration, slide |-> slide,
                                   accent |-> accent])
      /\ nextNoteTimeRef' = time + duration
      /\ lastOp' = "trigger"
      /\ UNCHANGED <<state, stateRef, currentStepRef, timerIDRef, timers,
                     audioTime, perfTime, ctxState, awaiting, ready, outputs,
                     sched, midi, batch, runId, runNow, budget>>

Trigger == \E n \in EngineNotes, sl \in BOOLEAN, ac \in BOOLEAN : EngineTrigger(n, sl, ac)

\* audioEngine.updateParams({cutoff, resonance, decay, envMod, waveform})
UpdateParams ==
  /\ budget.edits > 0
  /\ \E w \in Waveforms :
       engine' = updateParams(engine,
                              [cutoff |-> stateRef.cutoff,
                               resonance |-> stateRef.resonance,
                               decay |-> stateRef.decay,
                               envMod |-> stateRef.envMod, waveform |-> w],
                              audioTime)
  /\ budget' = [budget EXCEPT !.edits = @ - 1]
  /\ lastOp' = "updateParams"
  /\ UNCHANGED <<state, stateRef, nextNoteTimeRef, currentStepRef, timerIDRef,
                 timers, audioTime, perfTime, ctxState, awaiting, ready, outputs,
                 sched, voice, midi, batch, runId, runNow>>

NextEngine ==
  \/ Trigger
  \/ UpdateParams

SpecEngine == InitEngine /\ [][NextEngine]_vars

(***************************************************************************)
(* Properties                                                              *)
(***************************************************************************)
IsPrefix(a, b) == Len(a) <= Len(b) /\ SubSeq(b, 1, Len(a)) = a

\* sched[i] and sched[i+1] were scheduled one after the other in one run
Consecutive(i) == i + 1 <= Len(sched) /\ sched[i].run = sched[i + 1].run

\* C1: while the transport runs at a constant tempo T, the audio-clock times
\* of consecutive scheduled steps differ by exactly 15/T seconds (15000/T ms),
\* whenever the ticks arrive.
C1_ConstantTempoSpacing ==
  \A i \in 1 .. Len(sched) :
    (Consecutive(i) /\ sched[i].bpm = sched[i + 1].bpm)
      => (sched[i + 1].time - sched[i].time) * sched[i].bpm = 15000

\* a late tick has just caught up two steps or more at one tempo
C1_Witness ==
  /\ lastOp = "tick"
  /\ Len(batch) >= 2
  /\ batch[1].bpm = batch[2].bpm
  /\ \E i \in 1 .. Len(sched) : Consecutive(i) /\ sched[i].bpm = 300

IsActiveEntry(e) == e.active

\* the scheduled steps the scheduler found active, in the order scheduled
ActiveEntries == SelectSeq(sched, IsActiveEntry)

\* C2: the voice is triggered exactly once for each scheduled step the
\* scheduler finds active and never for an inactive one; each pass takes the
\* 16 steps in order; at a constant tempo T step k of the first loop is at
\* t0 + k * 15/T with t0 = start time + lead-in; the loaded pattern at tempo
\* 120 gives 4 triggers in the first loop, at t0, t0+0.5, t0+1.0, t0+1.5 s.
C2_TriggersPerLoop ==
  LET t0 == runNow + LeadIn
  IN  /\ Len(voice) = Len(ActiveEntries)
      /\ \A k \in 1 .. Len(voice) :
           /\ voice[k].time = ActiveEntries[k].time
           /\ voice[k].duration = SecondsPer16th(ActiveEntries[k].bpm)
      /\ \A i \in 1 .. Len(sched) :
           /\ sched[i].run = 1
           /\ sched[i].step = (i - 1) % STEPS_PER_BAR
           /\ (\A j \in 1 .. i : sched[j].bpm = sched[i].bpm)
                => (sched[i].time - t0) * sched[i].bpm = (i - 1) * 15000
      /\ (state.bpm = 120 /\ budget.edits = MaxEdits /\ Len(sched) >= STEPS_PER_BAR)
           => /\ Len(voice) >= 4
              /\ \A k \in 1 .. 4 : voice[k].time = t0 + (k - 1) * 500
              /\ \A k \in 1 .. Len(voice) : k > 4 => voice[k].time >= t0 + 2000

\* the loaded pattern has played one full loop at tempo 120 and begun the next
C2_Witness ==
  /\ state.bpm = 120
  /\ budget.edits = MaxEdits
  /\ Len(sched) > STEPS_PER_BAR
  /\ Len(voice) = 5

\* C3: a tempo change (the update of the state, and its propagation to the
\* scheduler by a render) leaves every scheduled trigger, duration and MIDI
\* message and the next trigger time as they are; a step scheduled afterwards
\* gets the duration and the increment of the tempo the scheduler then reads.
C3_TempoChangeNotRetroactive ==
  [][ /\ IsPrefix(sched, sched') /\ IsPrefix(voice, voice') /\ IsPrefix(midi, midi')
      /\ (state'.bpm # state.bpm \/ stateRef'.bpm # stateRef.bpm)
           => UNCHANGED <<sched, voice, midi, nextNoteTimeRef, currentStepRef>>
      /\ sched' # sched
           => /\ nextNoteTimeRef' - sched'[Len(sched')].time
                   = SecondsPer16th(stateRef.bpm)
              /\ \A i \in (Len(voice) + 1) .. Len(voice') :
                   voice'[i].duration = SecondsPer16th(stateRef.bpm)
    ]_vars

\* two steps of one run were scheduled at different tempos
C3_Witness ==
  \E i \in 1 .. Len(sched) :
    /\ Consecutive(i)
    /\ sched[i].bpm # sched[i + 1].bpm
    /\ sched[i + 1].time - sched[i].time = SecondsPer16th(sched[i].bpm)
    /\ Len(voice) >= 1

\* C10: a tick, however late, schedules every step that is due, in cyclic
\* order and at the accumulated times, and returns with the next trigger
\* time at or beyond (audio clock now + 0.1 s).
C10_LateTickCatchesUp ==
  lastOp = "tick" =>
    /\ nextNoteTimeRef >= audioTime + SCHEDULE_AHEAD_TIME
    /\ Len(batch) <= Len(sched)
    /\ batch = SubSeq(sched, Len(sched) - Len(batch) + 1, Len(sched))
    /\ \A i \in (Len(sched) - Len(batch) + 1) .. Len(sched) :
         /\ sched[i].time < audioTime + SCHEDULE_AHEAD_TIME
         /\ (i > 1 /\ sched[i - 1].run = sched[i].run) =>
              /\ sched[i].step = (sched[i - 1].step + 1) % STEPS_PER_BAR
              /\ sched[i].time = sched[i - 1].time + SecondsPer16th(sched[i - 1].bpm)
    /\ Len(batch) > 0 =>
         currentStepRef = (batch[Len(batch)].step + 1) % STEPS_PER_BAR

\* a tick has just scheduled a backlog of three steps
C10_Witness == lastOp = "tick" /\ Len(batch) >= 3

IsNoteOn(msg) == msg.data[1] = 144

IsNoteOff(msg) == msg.data[1] = 128

IsAllNotesOff(msg) == msg.data = <<176, 123, 0>>

IsNoteMsg(msg) == IsNoteOn(msg) \/ IsNoteOff(msg)

\* the note-on and note-off messages sent so far, in the order sent
NoteMsgs == SelectSeq(midi, IsNoteMsg)

\* C4: after stop() has run and until the next start, no scheduling tick
\* fires (and so no voice trigger and no MIDI note-on is issued).
C4_NoTickAfterStop == ~(lastOp = "tick" /\ ~state.isPlaying)

\* C5: once stop() has emitted all-notes-off, no note-on or note-off handed
\* to that output before it takes effect after it.
C5_NothingAfterAllNotesOff ==
  \A j \in 1 .. Len(midi) : \A i \in 1 .. Len(midi) :
    (i < j /\ IsAllNotesOff(midi[j]) /\ IsNoteMsg(midi[i])
       /\ midi[i].out = midi[j].out)
      => midi[i].at <= midi[j].at

\* C6: the note messages come in pairs: every note-on is followed at once by
\* one note-off for the same pitch on the same output with a strictly later
\* timestamp, and there is no other note-off.
C6_NoteOnOffPaired ==
  /\ Len(NoteMsgs) % 2 = 0
  /\ \A k \in 1 .. Len(NoteMsgs) :
       IF k % 2 = 1
       THEN /\ IsNoteOn(NoteMsgs[k])
            /\ k + 1 <= Len(NoteMsgs)
            /\ IsNoteOff(NoteMsgs[k + 1])
            /\ NoteMsgs[k + 1].data[2] = NoteMsgs[k].data[2]
            /\ NoteMsgs[k + 1].out = NoteMsgs[k].out
            /\ NoteMsgs[k + 1].at > NoteMsgs[k].at
       ELSE IsNoteOff(NoteMsgs[k])

\* two notes have been sent, an all-notes-off between them
C6_Witness ==
  /\ Len(NoteMsgs) >= 4
  /\ \E j \in 1 .. Len(midi) : IsAllNotesOff(midi[j]) /\ j < Len(midi)

\* C7: at most one self-rescheduling tick timer is armed at any time.
C7_SingleTimer == Cardinality(timers) <= 1

\* C8: start() leaves currentStepIndex = 0 and nextTriggerAudioTime = audio
\* clock now + 0.1 s, and the first step scheduled in a run is step 0 at
\* exactly that time.
C8_StartResets ==
  /\ lastOp = "start" =>
       /\ currentStepRef = 0
       /\ nextNoteTimeRef = audioTime + LeadIn
       /\ runNow = audioTime
  /\ \A i \in 1 .. Len(sched) :
       (sched[i].run = runId /\ (i = 1 \/ sched[i - 1].run # runId))
         => sched[i].step = 0 /\ sched[i].time = runNow + LeadIn

\* a second run has scheduled its first step after the first run had advanced
C8_Witness ==
  /\ runId >= 2
  /\ \E i \in 2 .. Len(sched) :
       /\ sched[i].run = runId
       /\ sched[i - 1].run # runId
       /\ sched[i].time > sched[1].time

\* C9: whenever the transport is Stopped, the scheduler's currentStepIndex
\* and the published currentStep are both 0.
C9_StoppedAtZero ==
  ~state.isPlaying => (currentStepRef = 0 /\ state.currentStep = 0)


\* the partials the grid passes to onStepChange
GridPartials ==
  {[active |-> FALSE]}
    \cup {[active |-> TRUE, noteIndex |-> n] : n \in 0 .. (NotesLength - 1)}
    \cup {[accent |-> b] : b \in BOOLEAN}
    \cup {[slide |-> b] : b \in BOOLEAN}

DefaultStep == [active |-> FALSE, noteIndex |-> 0, accent |-> FALSE, slide |-> FALSE]

\* C11: after setStep(i, partial) step i is the previous step i with exactly
\* the fields named in partial replaced and every other field unchanged;
\* setStep(i, {active: true, noteIndex: 5}) on a default step gives
\* {active: true, noteIndex: 5, accent: false, slide: false}.
C11_SetStepMerges ==
  [][\A i \in EditSteps : \A partial \in GridPartials :
       setStep(i, partial)
         => /\ state'.steps[i] = Merge(state.steps[i], partial)
            /\ (state.steps[i] = DefaultStep
                  /\ partial = [active |-> TRUE, noteIndex |-> 5])
                 => state'.steps[i] = [active |-> TRUE, noteIndex |-> 5,
                                       accent |-> FALSE, slide |-> FALSE]]_vars

\* C12: setStep(i, partial) changes no step other than i: every step j # i
\* keeps the value the latest pattern update gave it, also when that update
\* has not been rendered yet.
C12_SetStepFrame ==
  [][\A i \in EditSteps : \A partial \in GridPartials :
       setStep(i, partial)
         => \A j \in Steps \ {i} : state'.steps[j] = state.steps[j]]_vars

\* C13: setStep(i, partial) with i outside 0..15 leaves the pattern as it
\* was: 16 steps, each with its previous value.
C13_OutOfRangeRejected ==
  [][\A i \in AnyIndex \ Steps : \A partial \in Partials(INITIAL_STEPS[0]) :
       setStep(i, partial)
         => /\ state'.steps = state.steps
            /\ DOMAIN state'.steps = Steps]_vars

\* C14: after any sequence of grid clicks, accent and slide toggles, CLEAR
\* and RANDOMIZE from the initial pattern, the noteIndex of every step is an
\* integer in 0..12, an index NOTES has.
C14_NoteIndexInRange ==
  /\ DOMAIN state.steps = Steps
  /\ \A j \in Steps :
       /\ state.steps[j].noteIndex \in 0 .. (NotesLength - 1)
       /\ stateRef.steps[j].noteIndex \in 0 .. (NotesLength - 1)

\* a click on the top row has followed a rendered RANDOMIZE with the highest
\* draws
C14_Witness ==
  /\ lastOp = "edit"
  /\ state.steps[0].noteIndex = 12
  /\ state.steps[1].noteIndex = 11
  /\ state.steps[1].slide

\* C15: after any sequence of tempo updates (the tempo input, the Q and A
\* keys, the slider) the tempo is within 20..300; a request for 301 gives 300
\* and a request for 19 gives 20.
C15_TempoClamped ==
  [][/\ state'.bpm >= 20 /\ state'.bpm <= 300
     /\ stateRef'.bpm >= 20 /\ stateRef'.bpm <= 300
     /\ \A value \in TempoRequests :
          (tempoInput(value) \/ tempoSlider(value))
            => state'.bpm = (IF value > 300 THEN 300
                             ELSE IF value < 20 THEN 20 ELSE value)]_vars

\* a request for 301 has followed a rendered request for 19
C15_Witness ==
  /\ lastOp \in {"tempoInput", "tempoSlider"}
  /\ state.bpm = 300
  /\ stateRef.bpm = 20

\* the steps this transition has scheduled
NewEntries == SubSeq(sched', Len(sched) + 1, Len(sched'))

\* C16: while no output is selected, or the selected id is not among the
\* known outputs, scheduling an active step and stopping the transport send
\* no MIDI message, and the voice is triggered for every active step that is
\* scheduled.
C16_NoOutputNoMessage ==
  [][(stateRef.selectedMidiOutputId = NoOutput
        \/ stateRef.selectedMidiOutputId \notin outputs)
       => /\ midi' = midi
          /\ IsPrefix(sched, sched')
          /\ Len(voice') = Len(voice) + Len(SelectSeq(NewEntries, IsActiveEntry))]_vars

\* the selected output was unplugged, an active step was scheduled and the
\* transport was stopped, all without a message
C16_Witness ==
  /\ lastOp = "stop"
  /\ stateRef.selectedMidiOutputId = "o1"
  /\ "o1" \notin outputs
  /\ Len(voice) >= 1
  /\ midi = <<>>

\* the voice triggers and the messages this transition has added
NewVoice == SubSeq(voice', Len(voice) + 1, Len(voice'))

NewMidi == SubSeq(midi', Len(midi) + 1, Len(midi'))

\* C17: every message sent is a note-on [0x90, p, v] with v = 127 for an
\* accented step and 100 otherwise, a note-off [0x80, p, 0], or the
\* all-notes-off [0xB0, 123, 0]; p is the NOTES entry of the step's
\* noteIndex, 48 + noteIndex, within 48..60.
C17_MessageShapes ==
  [][/\ IsPrefix(midi, midi') /\ IsPrefix(voice, voice')
     /\ \/ NewMidi = <<>>
        \/ Len(NewMidi) = 1 /\ NewMidi[1].data = <<176, 123, 0>>
        \/ /\ Len(NewMidi) = 2 * Len(NewVoice)
           /\ \A k \in 1 .. Len(NewVoice) :
                LET p == NoteMidi(NewVoice[k].noteIndex)
                    v == IF NewVoice[k].accent THEN 127 ELSE 100
                IN  /\ p \in 48 .. 60
                    /\ NewMidi[2 * k - 1].data = <<144, p, v>>
                    /\ NewMidi[2 * k].data = <<128, p, 0>>]_vars

\* an accented note, a plain note and the all-notes-off have been sent
C17_Witness ==
  /\ \E i \in 1 .. Len(midi) : midi[i].data = <<144, 60, 127>>
  /\ \E i \in 1 .. Len(midi) : midi[i].data = <<144, 53, 100>>
  /\ \E i \in 1 .. Len(midi) : midi[i].data = <<176, 123, 0>>

\* performance.now() + (time - audioCtx.currentTime) * 1000 for an audio
\* time, with the clocks as the transition reads them
WallTime(time) == perfTime + SecToPerf(time - audioTime)

\* C18: the timestamp of the note-on of a scheduled step is
\* max(now, now + (trigger time - audio clock now)) on the wall clock, so it
\* is never earlier than the wall-clock time at which it is sent, also for an
\* overdue step of a backlog.
C18_NoteOnClamped ==
  [][/\ IsPrefix(midi, midi') /\ IsPrefix(voice, voice')
     /\ Len(NewMidi) = 2 * Len(NewVoice)
     /\ \A k \in 1 .. Len(NewVoice) :
          LET on == NewMidi[2 * k - 1]
          IN  /\ IsNoteOn(on)
              /\ on.at = Max(perfTime, WallTime(NewVoice[k].time))
              /\ on.at >= perfTime]_vars

\* a late tick has sent the note-on of an overdue step, stamped with the
\* present, and the note-on of a step still ahead
C18_Witness ==
  /\ lastOp = "tick"
  /\ \E i \in 1 .. Len(batch) : batch[i].active /\ batch[i].time < audioTime
  /\ \E i \in 1 .. Len(batch) : batch[i].active /\ batch[i].time > audioTime
  /\ \E i \in 1 .. Len(midi) : IsNoteOn(midi[i]) /\ midi[i].at = perfTime

\* the k-th trigger and the next one are consecutive steps of one run
NextIsFollowing(k) ==
  /\ k + 1 <= Len(voice)
  /\ ActiveEntries[k + 1].run = ActiveEntries[k].run
  /\ ActiveEntries[k + 1].time = ActiveEntries[k].time + voice[k].duration

\* every note-off of a non-slide step precedes the note-on of the following
\* step
GapAfterNonSlide ==
  /\ Len(NoteMsgs) = 2 * Len(voice)
  /\ \A k \in 1 .. Len(voice) :
       (~voice[k].slide /\ NextIsFollowing(k))
         => NoteMsgs[2 * k].at < NoteMsgs[2 * k + 1].at

\* C19: the note-off of a non-slide step is stamped with the wall-clock
\* translation of trigger time + 90% of the step duration, which is before
\* the step boundary and before the note-on of the following step, also when
\* the step was scheduled late and its note-on stamped with the present.
C19_NonSlideGap ==
  [][/\ IsPrefix(midi, midi') /\ IsPrefix(voice, voice')
     /\ Len(NewMidi) = 2 * Len(NewVoice)
     /\ \A k \in 1 .. Len(NewVoice) :
          ~NewVoice[k].slide
            => /\ NewMidi[2 * k].at
                    = WallTime(NewVoice[k].time)
                        + (SecToPerf(NewVoice[k].duration) * 9) \div 10
               /\ NewMidi[2 * k].at
                    < WallTime(NewVoice[k].time + NewVoice[k].duration)
     /\ GapAfterNonSlide']_vars

\* C20: the note-off of a slide step that is followed by an active step is
\* stamped later than the note-on of that step, at every tempo, also when the
\* tempo changes between the two steps and when a note-on was stamped with
\* the present.
C20_SlideOverlap ==
  /\ Len(NoteMsgs) = 2 * Len(voice)
  /\ \A k \in 1 .. Len(voice) :
       (voice[k].slide /\ NextIsFollowing(k))
         => NoteMsgs[2 * k].at > NoteMsgs[2 * k + 1].at

\* every event of the four automation timelines
EngineEvents ==
  {engine.frequency[i] : i \in DOMAIN engine.frequency}
    \cup {engine.Q[i] : i \in DOMAIN engine.Q}
    \cup {engine.cutoff[i] : i \in DOMAIN engine.cutoff}
    \cup {engine.gain[i] : i \in DOMAIN engine.gain}

\* C21: after any sequence of scheduleNote and updateParams calls at most one
\* oscillator/filter/amp chain has been created and started, and every call
\* has written into that one chain.
C21_SingleChain ==
  /\ engine.chains <= 1
  /\ Len(engine.started) <= 1
  /\ voice # <<>> => /\ engine.chains = 1
                     /\ engine.osc = 1
                     /\ Len(engine.started) = 1
                     /\ engine.started[1] = [node |-> 1, time |-> voice[1].time]
  /\ \A ev \in EngineEvents : ev.node = 1

\* two notes or more have been triggered and updateParams has written to the
\* filter of the chain
C21_Witness ==
  /\ Len(voice) >= 2
  /\ \E i \in DOMAIN engine.Q : engine.Q[i].kind = "setTarget"

GainEvents == {engine.gain[i] : i \in DOMAIN engine.gain}

\* the gain the attack of voice[k] reaches, in tenths
AttackLevel(k) == IF voice[k].accent THEN 15 ELSE 10

\* C22: when a non-slide trigger A is followed by a slide trigger B, no gain
\* event with value 0 is scheduled at B's trigger time, nothing sets or ramps
\* the gain to 0 after A's trigger time up to B's, and B sets the gain at its
\* trigger time to the sustained level; when A is followed by a non-slide
\* trigger C, the gain is set to 0 at C's trigger time and ramps up from there.
C22_LegatoGain ==
  \A k \in 1 .. (Len(voice) - 1) :
    ~voice[k].slide =>
      LET tA == voice[k].time
          tB == voice[k + 1].time
      IN  IF voice[k + 1].slide
          THEN /\ \A ev \in GainEvents : ~(ev.time = tB /\ ev.value = 0)
               /\ \A ev \in GainEvents :
                    ~(/\ ev.kind \in {"setValue", "linearRamp", "exponentialRamp"}
                      /\ ev.value = 0
                      /\ tA < ev.time
                      /\ ev.time <= tB)
               /\ Event(1, "setValue", AttackLevel(k + 1), tB) \in GainEvents
          ELSE /\ Event(1, "setValue", 0, tB) \in GainEvents
               /\ Event(1, "linearRamp", AttackLevel(k + 1), tB + 5) \in GainEvents

\* a non-slide note was followed by a non-slide note and that one by a slide
\* note
C22_Witness ==
  /\ Len(voice) = 3
  /\ ~voice[1].slide
  /\ ~voice[2].slide
  /\ voice[3].slide

CutoffEvents == {engine.cutoff[i] : i \in DOMAIN engine.cutoff}

\* the filter frequency voice[k] starts its envelope from, in hertz
EnvelopeBase(k) ==
  (CHOOSE ev \in CutoffEvents : ev.kind = "setValue" /\ ev.time = voice[k].time).value

\* the filter frequency the attack of voice[k] reaches, in hertz
EnvelopePeak(k) ==
  (CHOOSE ev \in CutoffEvents :
     ev.kind = "exponentialRamp" /\ ev.time = voice[k].time + 10).value

\* the gain the attack of voice[k] reaches, in tenths
GainPeak(k) ==
  (CHOOSE ev \in GainEvents :
     IF voice[k].slide
     THEN ev.kind = "setValue" /\ ev.time = voice[k].time
     ELSE ev.kind = "linearRamp" /\ ev.time = voice[k].time + 5).value

\* an accented and a plain trigger with the same slide input (cutoff and
\* envMod are the same for every trigger of a behaviour)
AccentPair(j, k) ==
  /\ voice[j].accent
  /\ ~voice[k].accent
  /\ voice[j].slide = voice[k].slide

\* C24: for given cutoff, envMod and slide inputs, the peak filter excursion
\* above the base cutoff and the peak gain of an accented trigger are each
\* exactly 1.5 times those of a non-accented trigger.
C24_AccentScaling ==
  \A j, k \in DOMAIN voice :
    AccentPair(j, k) =>
      /\ EnvelopeBase(j) = EnvelopeBase(k)
      /\ EnvelopePeak(k) > EnvelopeBase(k)
      /\ 2 * (EnvelopePeak(j) - EnvelopeBase(j)) = 3 * (EnvelopePeak(k) - EnvelopeBase(k))
      /\ GainPeak(k) > 0
      /\ 2 * GainPeak(j) = 3 * GainPeak(k)

\* an accented slide note and a plain slide note have been triggered
C24_Witness ==
  \E j, k \in DOMAIN voice : AccentPair(j, k) /\ voice[j].slide

\* the events a transition appends to the osc.frequency timeline
NewFrequencyEvents ==
  SubSeq(engine'.frequency, Len(engine.frequency) + 1, Len(engine'.frequency))

\* C26: a trigger glides (from the previous trigger's target frequency to the
\* new one over 0.1 s) exactly when slide is true and the voice is already
\* sounding; otherwise the frequency jumps to the target at the trigger time
\* and the requested waveform is applied.  After every trigger
\* currentFrequency is the target and isPlaying is true.
C26_GlideOrJump ==
  [][\A n \in EngineNotes, sl \in BOOLEAN, ac \in BOOLEAN :
       EngineTrigger(n, sl, ac) =>
         LET time == nextNoteTimeRef
             target == midiToFreq(NoteMidi(n))
         IN  /\ IF sl /\ engine.isPlaying
                THEN /\ engine.currentFrequency =
                          midiToFreq(NoteMidi(voice[Len(voice)].noteIndex))
                     /\ NewFrequencyEvents =
                          <<Event(1, "setValue", engine.currentFrequency, time),
                            Event(1, "exponentialRamp", target, time + 100)>>
                     /\ engine'.type = engine.type
                ELSE /\ NewFrequencyEvents = <<Event(1, "setValue", target, time)>>
                     /\ engine'.type = stateRef.waveform
             /\ engine'.currentFrequency = target
             /\ engine'.isPlaying]_vars

\* a slide note has glided to another pitch while the oscillator had the
\* waveform updateParams gave it, and an earlier slide note (the first note
\* of all) has jumped
C26_Witness ==
  /\ lastOp = "trigger"
  /\ Len(voice) >= 2
  /\ voice[1].slide
  /\ voice[Len(voice)].slide
  /\ voice[Len(voice)].noteIndex # voice[Len(voice) - 1].noteIndex
  /\ engine.type = "square"
  /\ engine.frequency[1] = Event(1, "setValue", midiToFreq(NoteMidi(voice[1].noteIndex)), voice[1].time)
  /\ engine.frequency[Len(engine.frequency)].kind = "exponentialRamp"

\* sched[i] is the first step scheduled in its run
FirstOfRun(i) == i = 1 \/ sched[i - 1].run # sched[i].run

\* the oscillator is set to glide into the pitch of a step triggered at time
GlidesInto(time) ==
  \E i \in DOMAIN engine.frequency :
    /\ engine.frequency[i].kind = "exponentialRamp"
    /\ engine.frequency[i].time = time + 100

\* C23: a stop resets the voice to silent (isPlaying false), so that the first
\* step of the next run jumps to its pitch, also when it is a slide step.
C23_StopSilencesVoice ==
  /\ lastOp = "stop" => ~engine.isPlaying
  /\ \A i \in DOMAIN sched :
       (FirstOfRun(i) /\ sched[i].active) => ~GlidesInto(sched[i].time)

\* C25: selecting, changing or deselecting the output while the transport
\* runs sends no message and touches nothing already sent; the note-on and
\* the note-off of every step scheduled go, as a pair, to the output selected
\* as of the scheduling pass.
C25_SelectionAffectsLaterSteps ==
  [][/\ IsPrefix(midi, midi')
     /\ (state'.selectedMidiOutputId # state.selectedMidiOutputId
           \/ stateRef'.selectedMidiOutputId # stateRef.selectedMidiOutputId)
          => (midi' = midi /\ sched' = sched /\ voice' = voice)
     /\ NewVoice # <<>> =>
          /\ Len(NewMidi) \in {0, 2 * Len(NewVoice)}
          /\ \A i \in 1 .. Len(NewMidi) :
               /\ IsNoteMsg(NewMidi[i])
               /\ NewMidi[i].out = stateRef.selectedMidiOutputId
               /\ stateRef'.selectedMidiOutputId = stateRef.selectedMidiOutputId]_vars

\* while the transport ran the output was changed from o1 to o2: a step went
\* to o1, a later one to o2, each with its note-off
C25_Witness ==
  /\ state.isPlaying
  /\ Len(midi) = 4
  /\ midi[1].out = "o1" /\ midi[2].out = "o1"
  /\ midi[3].out = "o2" /\ midi[4].out = "o2"
  /\ \A i \in 1 .. 4 : IsNoteMsg(midi[i])

\* the index in sched of the k-th active step scheduled
ActiveIndex(k) ==
  CHOOSE i \in DOMAIN sched :
    sched[i].active /\ Cardinality({j \in 1 .. i : sched[j].active}) = k

\* what nextNote added to nextNoteTimeRef after sched[i] was scheduled, in a
\* behaviour with one run
Increment(i) ==
  IF i < Len(sched) THEN sched[i + 1].time - sched[i].time
                    ELSE nextNoteTimeRef - sched[i].time

\* C27: for every active step scheduled, the duration handed to the voice and
\* the duration the MIDI note-off delay (90% or 110% of it) is taken from
\* equal the increment nextNote applies to nextNoteTimeRef for that step: one
\* snapshot of the tempo serves the whole step.
C27_OneSnapshotPerStep ==
  /\ Len(voice) = Len(ActiveEntries)
  /\ Len(NoteMsgs) = 2 * Len(voice)
  /\ \A k \in DOMAIN voice :
       LET i == ActiveIndex(k)
       IN  /\ voice[k].time = sched[i].time
           /\ voice[k].duration = Increment(i)
           /\ 10 * (NoteMsgs[2 * k].at - NoteMsgs[2 * k - 1].at) =
                SecToPerf(Increment(i)) * (IF voice[k].slide THEN 11 ELSE 9)

\* the tempo was changed during the run: a step lasted 125 ms and a later
\* slide step 50 ms
C27_Witness ==
  \E j, k \in DOMAIN voice :
    /\ j < k
    /\ voice[j].duration = 125
    /\ voice[k].duration = 50
    /\ voice[k].slide

\* C28: currentStepRef (and the published currentStep) is always within
\* 0..15; within a run every scheduled step has the index of the one
\* scheduled before it plus one modulo 16, and the trigger time grows with
\* every scheduled step: each step is later than the one before and the next
\* trigger time is later than the last step scheduled.
C28_CyclicOrder ==
  /\ currentStepRef \in Steps
  /\ state.currentStep \in Steps
  /\ \A i \in DOMAIN sched :
       /\ sched[i].step \in Steps
       /\ Consecutive(i) =>
            /\ sched[i + 1].step = (sched[i].step + 1) % STEPS_PER_BAR
            /\ sched[i + 1].time > sched[i].time
  /\ (state.isPlaying /\ sched # <<>> /\ sched[Len(sched)].run = runId) =>
       /\ nextNoteTimeRef > sched[Len(sched)].time
       /\ currentStepRef = (sched[Len(sched)].step + 1) % STEPS_PER_BAR

\* the run has gone round the bar: step 15 was followed by step 0, and the
\* scheduler stands at a later step
C28_Witness ==
  /\ \E i \in DOMAIN sched :
       Consecutive(i) /\ sched[i].step = 15 /\ sched[i + 1].step = 0
  /\ currentStepRef > 0

\* C29: whatever the tempo and however late the tick, every step is scheduled
\* with a trigger time strictly less than the audio clock at the moment of
\* scheduling plus 0.1 s.
C29_WithinLookahead ==
  [][sched' # sched =>
       /\ audioTime' = audioTime
       /\ \A j \in (Len(sched) + 1) .. Len(sched') :
            sched'[j].time < audioTime + SCHEDULE_AHEAD_TIME]_vars

\* a tick has scheduled a step and left the next one, due exactly 0.1 s
\* ahead, for a later tick
C29_Witness ==
  /\ lastOp = "tick"
  /\ batch # <<>>
  /\ nextNoteTimeRef = audioTime + SCHEDULE_AHEAD_TIME

\* the number of 16th notes of length d that start before the end of a
\* window which is gap long
StepsDue(gap, d) == IF gap <= 0 THEN 0 ELSE (gap + d - 1) \div d

\* C30: every timeout callback terminates: its loop makes a finite number of
\* iterations, as many as there are steps due before audio clock now + 0.1 s
\* (none when none is due), and then one timeout, 25 ms ahead, replaces the
\* one that fired.
C30_TickTerminates ==
  [][lastOp' = "tick" =>
       LET d == SecondsPer16th(stateRef.bpm)
           n == StepsDue(audioTime + SCHEDULE_AHEAD_TIME - nextNoteTimeRef, d)
       IN  /\ d > 0
           /\ Len(batch') = n
           /\ Len(sched') = Len(sched) + n
           /\ nextNoteTimeRef' = nextNoteTimeRef + n * d
           /\ Cardinality(timers \ timers') = 1
           /\ \A tm \in timers \ timers' : tm.due <= perfTime
           /\ timers' \ timers =
                {[id |-> timerIDRef', due |-> perfTime + MsToPerf(LOOKAHEAD)]}]_vars

\* a timeout callback has found no step due, scheduled nothing and re-armed
\* the one timeout of the run
C30_Witness ==
  /\ lastOp = "tick"
  /\ batch = <<>>
  /\ sched # <<>>
  /\ Cardinality(timers) = 1
  /\ nextNoteTimeRef >= audioTime + SCHEDULE_AHEAD_TIME

=============================================================================
